---- MODULE Spec2Model ----
(***************************************************************************)
(* Model of credsweeper/credentials/line_data.py: the LineData record, its *)
(* construction (initialize, sanitize_value, sanitize_variable) and its    *)
(* readers (is_well_quoted_value, is_quoted, is_comment, compare, to_json).*)
(*                                                                         *)
(* A Python str is a sequence of one-character strings; positions are      *)
(* 0-based as in the source.  An Optional[str] is [some, s]: None has      *)
(* some = FALSE.                                                           *)
(***************************************************************************)
EXTENDS Integers, Sequences, FiniteSets, TLC

VARIABLES self, arg, pc, cache, ret, raised

vars == <<self, arg, pc, cache, ret, raised>>

-----------------------------------------------------------------------------
(* Characters and character classes                                        *)

\* U+2013 EN DASH, one character of the source text of comment_starts.
EN_DASH == "u2013"
\* U+000B, the one member of string.whitespace TLA+ has no escape for.
VT == "u000b"

DQUOTE == "\""
SQUOTE == "'"
\* U+0060 GRAVE ACCENT, the back-quote
BACKTICK == "u0060"
BACKSLASH == "\\"

Digits == {"0", "1", "2", "3", "4", "5", "6", "7", "8", "9"}

Letters ==
    {"a", "b", "c", "d", "e", "f", "g", "h", "i", "j", "k", "l", "m",
     "n", "o", "p", "q", "r", "s", "t", "u", "v", "w", "x", "y", "z",
     "A", "B", "C", "D", "E", "F", "G", "H", "I", "J", "K", "L", "M",
     "N", "O", "P", "Q", "R", "S", "T", "U", "V", "W", "X", "Y", "Z"}

\* string.whitespace, which is also what \s matches on these characters
Whitespace == {" ", "\t", "\n", "\r", VT, "\f"}

\* \w
WordChars == Letters \cup Digits \cup {"_"}

quotation_marks == <<DQUOTE, SQUOTE, BACKTICK>>

comment_starts ==
    << <<"/", "/">>, <<"*", " ">>, <<"#">>, <<"/", "*">>,
       <<"<", "!", EN_DASH, EN_DASH>>, <<"%", "{">>, <<"%">>,
       <<".", ".", ".">>, <<"(", "*">>, <<"-", "-">>,
       <<"-", "-", "[", "[">>, <<"#", "=">> >>

variable_strip_pattern == Whitespace \cup {",", SQUOTE, DQUOTE, "-", ";"}

INITIAL_WRONG_POSITION == -3
EXCEPTION_POSITION == -2

\* credsweeper.common.constants.MAX_LINE_LENGTH, imported by line_data.py
MAX_LINE_LENGTH == 8000

-----------------------------------------------------------------------------
(* Python str primitives                                                   *)

None == [some |-> FALSE, s |-> <<>>]
Some(s) == [some |-> TRUE, s |-> s]
\* bool(x) of an Optional[str]
Truthy(x) == x.some /\ x.s # <<>>

Min(a, b) == IF a < b THEN a ELSE b
Max(a, b) == IF a < b THEN b ELSE a

\* a slice bound as Python normalises it
SliceBound(n, i) == IF i < 0 THEN Max(n + i, 0) ELSE Min(i, n)

\* s[a:b]
Slice(s, a, b) == SubSeq(s, SliceBound(Len(s), a) + 1, SliceBound(Len(s), b))
\* s[:b]
SliceTo(s, b) == Slice(s, 0, b)
\* s[a:]
SliceFrom(s, a) == Slice(s, a, Len(s))

\* sub occurs in s at 0-based position i
OccursAt(s, sub, i) ==
    /\ 0 <= i
    /\ i + Len(sub) <= Len(s)
    /\ \A k \in 1..Len(sub) : s[i + k] = sub[k]

\* s.find(sub, start) for start >= 0
Find(s, sub, start) ==
    LET hits == {i \in start..Len(s) : OccursAt(s, sub, i)}
    IN IF hits = {} THEN -1 ELSE CHOOSE i \in hits : \A j \in hits : i <= j

\* s.rfind(sub)
RFind(s, sub) ==
    LET hits == {i \in 0..Len(s) : OccursAt(s, sub, i)}
    IN IF hits = {} THEN -1 ELSE CHOOSE i \in hits : \A j \in hits : j <= i

startswith(s, p) == OccursAt(s, p, 0)
endswith(s, p) == OccursAt(s, p, Len(s) - Len(p))
\* sub in s
Contains(s, sub) == Find(s, sub, 0) # -1

\* s.split(c, maxsplit=1)[0]
SplitFirst(s, c) ==
    LET i == Find(s, <<c>>, 0) IN IF i = -1 THEN s ELSE SliceTo(s, i)

\* s.rsplit(c)[-1]
RsplitLast(s, c) ==
    LET i == RFind(s, <<c>>) IN IF i = -1 THEN s ELSE SliceFrom(s, i + 1)

\* s.lstrip(chars), s.rstrip(chars), s.strip(chars)
RECURSIVE lstrip(_, _)
lstrip(s, chars) ==
    IF s # <<>> /\ Head(s) \in chars THEN lstrip(Tail(s), chars) ELSE s

RECURSIVE rstrip(_, _)
rstrip(s, chars) ==
    IF s # <<>> /\ s[Len(s)] \in chars
    THEN rstrip(SubSeq(s, 1, Len(s) - 1), chars)
    ELSE s

strip(s, chars) == rstrip(lstrip(s, chars), chars)

\* every character of s[a:b] is in class, for 0 <= a <= b <= len(s)
AllIn(s, a, b, class) == \A k \in (a + 1)..b : s[k] \in class

\* the character s[i], or a value outside every class past the end
CharAt(s, i) == IF 0 <= i /\ i < Len(s) THEN s[i + 1] ELSE "EOS"

\* the least member of a non-empty set of positions, -1 for the empty set
FirstOf(S) == IF S = {} THEN -1 ELSE CHOOSE i \in S : \A j \in S : i <= j

-----------------------------------------------------------------------------
(* The compiled patterns of the class                                      *)

\* bash_param_split = \s+(\-|\||\>|\w+?\>|\&) matches at position i
bash_param_split_at(s, i) ==
    \E j \in (i + 1)..Len(s) :
        /\ AllIn(s, i, j, Whitespace)
        /\ \/ CharAt(s, j) \in {"-", "|", ">", "&"}
           \/ \E m \in (j + 1)..Len(s) :
                 AllIn(s, j, m, WordChars) /\ CharAt(s, m) = ">"

\* line_endings = \\{1,8}[nr] matches at position i
line_endings_at(s, i) ==
    \E k \in 1..8 :
        /\ i + k <= Len(s)
        /\ AllIn(s, i, i + k, {BACKSLASH})
        /\ CharAt(s, i + k) \in {"n", "r"}

\* (26|3f), ignoring case, at position j
url_param_code_at(s, j) ==
    \/ CharAt(s, j) = "2" /\ CharAt(s, j + 1) = "6"
    \/ CharAt(s, j) = "3" /\ CharAt(s, j + 1) \in {"f", "F"}

\* url_param_split = (%|\\u(00){0,2})(26|3f), ignoring case, matches at i
url_param_split_at(s, i) ==
    \/ CharAt(s, i) = "%" /\ url_param_code_at(s, i + 1)
    \/ /\ CharAt(s, i) = BACKSLASH
       /\ CharAt(s, i + 1) \in {"u", "U"}
       /\ \E z \in 0..2 :
             /\ \A k \in 0..(2 * z - 1) : CharAt(s, i + 2 + k) = "0"
             /\ url_param_code_at(s, i + 2 + 2 * z)

\* the characters of [0-9A-Za-z.-]
url_scheme_chars == Digits \cup Letters \cup {".", "-"}

\* url_scheme_part_regex.match(s, pos=pos, endpos=endpos): [0-9A-Za-z.-]{3}
url_scheme_part_regex_match(s, pos, endpos) ==
    LET e == Min(Max(endpos, 0), Len(s))
        p == Min(Max(pos, 0), e)
    IN p + 3 <= e /\ AllIn(s, p, p + 3, url_scheme_chars)

\* the characters of [\s"<>\[\]^~{|}] and the back-quote
url_chars_not_allowed ==
    Whitespace \cup {DQUOTE, "<", ">", "[", "]", "^", "~", BACKTICK, "{", "|", "}"}

\* url_chars_not_allowed_pattern.search(s, pos=pos)
url_chars_not_allowed_pattern_search(s, pos) ==
    \E k \in (Max(pos, 0) + 1)..Len(s) : s[k] \in url_chars_not_allowed

\* url_value_pattern.match(s): one or more characters outside
\* url_chars_not_allowed, & and ;, then & or ;, then 3 to 80 characters
\* outside url_chars_not_allowed, = and ;, then =, then 1 to 80 characters
\* outside url_chars_not_allowed, ;, & and =
url_value_pattern_match(s) ==
    \E a \in 1..Len(s) : \E b \in 3..Min(80, Len(s)) :
        /\ a + b + 3 <= Len(s)
        /\ \A k \in 1..a : s[k] \notin url_chars_not_allowed \cup {"&", ";"}
        /\ s[a + 1] \in {"&", ";"}
        /\ \A k \in (a + 2)..(a + 1 + b) :
              s[k] \notin url_chars_not_allowed \cup {"=", ";"}
        /\ s[a + b + 2] = "="
        /\ s[a + b + 3] \notin url_chars_not_allowed \cup {";", "&", "="}

\* pattern.split(s): whether it splits at all, and its first piece
HasSplit(s, At(_, _)) == \E i \in 0..Len(s) : At(s, i)
FirstPiece(s, At(_, _)) ==
    LET i == FirstOf({k \in 0..Len(s) : At(s, k)})
    IN IF i = -1 THEN s ELSE SliceTo(s, i)

-----------------------------------------------------------------------------
(* re.Match objects and the constructor arguments                        *)

GroupNames ==
    {"keyword", "separator", "value", "variable",
     "value_leftquote", "value_rightquote"}

\* A named group of a match: it took part in the match with span (s, e);
\* or the rule has the group but it did not take part; or the rule has no
\* such group.
Span(s, e) == [kind |-> "span", s |-> s, e |-> e]
Unmatched == [kind |-> "unmatched", s |-> -1, e |-> -1]
NoGroup == [kind |-> "nogroup", s |-> 0, e |-> 0]

\* match_obj = None
NoMatch == [is_match |-> FALSE, string |-> <<>>,
            groups |-> [g \in GroupNames |-> NoGroup]]
Match(string, groups) ==
    [is_match |-> TRUE, string |-> string, groups |-> groups]

\* _match_obj.group(group) under contextlib.suppress(Exception):
\* a missing group raises IndexError, a group that took no part is None
get_group_from_match_obj(_match_obj, group) ==
    LET g == _match_obj.groups[group]
    IN IF g.kind = "span"
       THEN Some(Slice(_match_obj.string, g.s, g.e))
       ELSE None

\* _match_obj.span(group) under contextlib.suppress(Exception):
\* a missing group raises IndexError, a group that took no part has span
\* (-1, -1)
get_span_from_match_obj(_match_obj, group) ==
    LET g == _match_obj.groups[group]
    IN CASE g.kind = "span" -> <<g.s, g.e>>
         [] g.kind = "unmatched" -> <<-1, -1>>
         [] OTHER -> <<EXCEPTION_POSITION, EXCEPTION_POSITION>>

\* the fields __init__ sets before it calls initialize
NewLineData(config, line, line_num, path, info, pattern) ==
    [config |-> config,
     line |-> line,
     line_num |-> line_num,
     path |-> path,
     info |-> info,
     pattern |-> pattern,
     value_start |-> INITIAL_WRONG_POSITION,
     value_end |-> INITIAL_WRONG_POSITION,
     key |-> None,
     separator |-> None,
     separator_start |-> INITIAL_WRONG_POSITION,
     separator_end |-> INITIAL_WRONG_POSITION,
     value |-> None,
     variable |-> None,
     variable_start |-> INITIAL_WRONG_POSITION,
     variable_end |-> INITIAL_WRONG_POSITION,
     value_leftquote |-> None,
     value_rightquote |-> None,
     url_part |-> FALSE]

\* lines 115-123 of initialize: every slot's text and span
extract(r, match_obj) ==
    [r EXCEPT
       !.key = get_group_from_match_obj(match_obj, "keyword"),
       !.separator = get_group_from_match_obj(match_obj, "separator"),
       !.separator_start = get_span_from_match_obj(match_obj, "separator")[1],
       !.separator_end = get_span_from_match_obj(match_obj, "separator")[2],
       !.value = get_group_from_match_obj(match_obj, "value"),
       !.value_start = get_span_from_match_obj(match_obj, "value")[1],
       !.value_end = get_span_from_match_obj(match_obj, "value")[2],
       !.variable = get_group_from_match_obj(match_obj, "variable"),
       !.variable_start = get_span_from_match_obj(match_obj, "variable")[1],
       !.variable_end = get_span_from_match_obj(match_obj, "variable")[2],
       !.value_leftquote =
           get_group_from_match_obj(match_obj, "value_leftquote"),
       !.value_rightquote =
           get_group_from_match_obj(match_obj, "value_rightquote")]

-----------------------------------------------------------------------------
(* QuoteAnalyzer                                                           *)

\* the first of quotation_marks contained in q, "" when there is none
RECURSIVE first_mark_in(_, _)
first_mark_in(q, k) ==
    IF k > Len(quotation_marks) THEN <<>>
    ELSE IF Contains(q, <<quotation_marks[k]>>) THEN <<quotation_marks[k]>>
    ELSE first_mark_in(q, k + 1)

\* leftquote / rightquote of is_well_quoted_value
canonical_quote(q) == IF Len(q) = 1 THEN q ELSE first_mark_in(q, 1)

\* the body of the cached property is_well_quoted_value
is_well_quoted_value(r) ==
    IF Truthy(r.value_leftquote) /\ Truthy(r.value_rightquote)
    THEN LET leftquote == canonical_quote(r.value_leftquote.s)
             rightquote == canonical_quote(r.value_rightquote.s)
         IN leftquote # <<>> /\ rightquote # <<>> /\ leftquote = rightquote
    ELSE FALSE

\* the first character of s that is a quotation mark, "" when there is none
RECURSIVE first_quote(_)
first_quote(s) ==
    IF s = <<>> THEN <<>>
    ELSE IF Head(s) \in {DQUOTE, SQUOTE, BACKTICK} THEN <<Head(s)>>
    ELSE first_quote(Tail(s))

\* is_quoted without its guards on variable_start and value_end
is_quoted_unguarded(r) ==
    LET left_quote == first_quote(SliceTo(r.line, r.variable_start))
        right_quote == first_quote(SliceFrom(r.line, r.value_end))
    IN left_quote # <<>> /\ right_quote # <<>> /\ left_quote = right_quote

\* the body of the cached property is_quoted
is_quoted(r) ==
    LET left_quote ==
            IF 0 < r.variable_start
            THEN first_quote(SliceTo(r.line, r.variable_start))
            ELSE <<>>
        right_quote ==
            IF Len(r.line) > r.value_end
            THEN first_quote(SliceFrom(r.line, r.value_end))
            ELSE <<>>
    IN left_quote # <<>> /\ right_quote # <<>> /\ left_quote = right_quote

\* functools.cached_property: the stored value when there is one, the
\* computed value otherwise
Unset == <<>>
cached(c, name, computed) == IF c[name] = Unset THEN computed ELSE c[name][1]
store(c, name, computed) ==
    IF c[name] = Unset THEN [c EXCEPT ![name] = <<computed>>] ELSE c

-----------------------------------------------------------------------------
(* UrlPartClassifier, ValueSanitizer, VariableSanitizer                    *)

URL_SCHEME_SEP == <<":", "/", "/">>

\* the while loop of check_url_part: the last url_pos it assigns
RECURSIVE url_pos_loop(_, _, _, _)
url_pos_loop(line_before_value, value_start, find_pos, url_pos) ==
    IF find_pos < value_start
    THEN LET found == IF find_pos <= Len(line_before_value)
                      THEN Find(line_before_value, URL_SCHEME_SEP, find_pos)
                      ELSE -1
         IN IF found = -1
            THEN url_pos
            ELSE url_pos_loop(line_before_value, value_start, found + 3, found)
    ELSE url_pos

\* check_url_part without the test of the character before the variable
check_url_part_no_query(r) ==
    LET line_before_value == SliceTo(r.line, r.value_start)
        url_pos == url_pos_loop(line_before_value, r.value_start, 0, -1)
    IN \/ /\ 3 <= url_pos
          /\ url_scheme_part_regex_match(line_before_value,
                                         url_pos - 3, url_pos)
          /\ ~url_chars_not_allowed_pattern_search(line_before_value,
                                                   url_pos + 3)
       \/ url_value_pattern_match(r.value.s)

\* check_url_part: the value it stores in url_part and returns
check_url_part(r) ==
    LET line_before_value == SliceTo(r.line, r.value_start)
        url_pos == url_pos_loop(line_before_value, r.value_start, 0, -1)
        scheme ==
            /\ 3 <= url_pos
            /\ url_scheme_part_regex_match(line_before_value,
                                           url_pos - 3, url_pos)
            /\ ~url_chars_not_allowed_pattern_search(line_before_value,
                                                     url_pos + 3)
        query ==
            IF 0 < r.variable_start
            THEN CharAt(r.line, r.variable_start - 1) \in {"?", "&"}
            ELSE FALSE
    IN scheme \/ query \/ url_value_pattern_match(r.value.s)

\* clean_url_parameters, called with variable and value present
clean_url_parameters(r) ==
    LET url_part == check_url_part(r)
        variable ==
            RsplitLast(RsplitLast(RsplitLast(r.variable.s, "&"), "?"), ";")
        value == SplitFirst(SplitFirst(SplitFirst(r.value.s, "&"), ";"), "#")
        value2 ==
            IF ~endswith(variable, URL_SCHEME_SEP)
               /\ HasSplit(value, url_param_split_at)
            THEN FirstPiece(value, url_param_split_at)
            ELSE value
    IN IF url_part
       THEN [r EXCEPT !.url_part = TRUE,
                      !.variable = Some(variable),
                      !.value = Some(value2)]
       ELSE [r EXCEPT !.url_part = FALSE]

\* clean_bash_parameters testing the variable after it is trimmed
clean_bash_parameters_after_trim(r) ==
    LET value1 ==
            IF startswith(strip(r.variable.s, variable_strip_pattern),
                          <<"-">>)
               /\ HasSplit(r.value.s, bash_param_split_at)
            THEN FirstPiece(r.value.s, bash_param_split_at)
            ELSE r.value.s
        value2 ==
            IF /\ ~Contains(value1, <<" ">>)
               /\ \/ Contains(value1, <<BACKSLASH, "n">>)
                  \/ Contains(value1, <<BACKSLASH, "r">>)
               /\ HasSplit(value1, line_endings_at)
            THEN FirstPiece(value1, line_endings_at)
            ELSE value1
    IN [r EXCEPT !.value = Some(value2)]

\* clean_bash_parameters, called with variable and value present
clean_bash_parameters(r) ==
    LET value1 ==
            IF startswith(r.variable.s, <<"-">>)
               /\ HasSplit(r.value.s, bash_param_split_at)
            THEN FirstPiece(r.value.s, bash_param_split_at)
            ELSE r.value.s
        value2 ==
            IF /\ ~Contains(value1, <<" ">>)
               /\ \/ Contains(value1, <<BACKSLASH, "n">>)
                  \/ Contains(value1, <<BACKSLASH, "r">>)
               /\ HasSplit(value1, line_endings_at)
            THEN FirstPiece(value1, line_endings_at)
            ELSE value1
    IN [r EXCEPT !.value = Some(value2)]

\* sanitize_value whose corrected value_end forgets value_start
sanitize_value_body_end_from_zero(r) ==
    LET _value == r.value.s
        c == clean_bash_parameters(clean_url_parameters(r))
    IN IF 0 <= c.value_start /\ 0 <= c.value_end
          /\ Len(c.value.s) < Len(_value)
       THEN LET start == Find(_value, c.value.s, 0)
            IN [c EXCEPT !.value_start = c.value_start + start,
                         !.value_end = Len(c.value.s)]
       ELSE c

\* lines 131-137 of sanitize_value: the two passes and the span correction
sanitize_value_body(r) ==
    LET _value == r.value.s
        c == clean_bash_parameters(clean_url_parameters(r))
    IN IF 0 <= c.value_start /\ 0 <= c.value_end
          /\ Len(c.value.s) < Len(_value)
       THEN LET start == Find(_value, c.value.s, 0)
            IN [c EXCEPT !.value_start = c.value_start + start,
                         !.value_end = c.value_start + start + Len(c.value.s)]
       ELSE c

\* line 129 with the quote test put first: it is read always
sanitize_value_reads_quotes_always(r) == TRUE

\* line 129: is_well_quoted_value is read only when variable and value are
\* both non-empty
sanitize_value_reads_quotes(r) == Truthy(r.variable) /\ Truthy(r.value)

\* sanitize_value without the test of is_well_quoted_value
sanitize_value_ignoring_quotes(r, well_quoted) ==
    IF Truthy(r.variable) /\ Truthy(r.value)
    THEN sanitize_value_body(r)
    ELSE r

\* sanitize_value, given the value is_well_quoted_value yields when read
sanitize_value(r, well_quoted) ==
    IF sanitize_value_reads_quotes(r) /\ ~well_quoted
    THEN sanitize_value_body(r)
    ELSE r

\* the while loop of sanitize_variable
RECURSIVE strip_loop(_, _)
strip_loop(variable, sanitized_var_len) ==
    IF Truthy(variable) /\ sanitized_var_len # Len(variable.s)
    THEN strip_loop(Some(strip(variable.s, variable_strip_pattern)),
                    Len(variable.s))
    ELSE variable

\* sanitize_variable
sanitize_variable(r) ==
    LET variable == r.variable
        stripped == strip_loop(r.variable, 0)
    IN IF Truthy(variable) /\ Len(stripped.s) < Len(variable.s)
          /\ 0 <= r.variable_start /\ 0 <= r.variable_end
       THEN LET start == Find(variable.s, stripped.s, 0)
            IN [r EXCEPT !.variable = stripped,
                         !.variable_start = r.variable_start + start,
                         !.variable_end =
                             r.variable_start + start + Len(stripped.s)]
       ELSE [r EXCEPT !.variable = stripped]

-----------------------------------------------------------------------------
(* CommentClassifier, EqualityComparator, Serializer                       *)

\* is_comment
is_comment(r) ==
    LET cleaned_line == strip(r.line, Whitespace)
    IN \E k \in 1..Len(comment_starts) :
          startswith(cleaned_line, comment_starts[k])

\* compare that also looks at value_end
compare_with_value_end(a, other) ==
    /\ a.path = other.path
    /\ a.info = other.info
    /\ a.line_num = other.line_num
    /\ a.value_start = other.value_start
    /\ a.value_end = other.value_end
    /\ a.variable = other.variable
    /\ a.value = other.value

\* compare
compare(a, other) ==
    /\ a.path = other.path
    /\ a.info = other.info
    /\ a.line_num = other.line_num
    /\ a.value_start = other.value_start
    /\ a.variable = other.variable
    /\ a.value = other.value

\* EntropyValidator(data).to_dict() of credsweeper.utils.entropy_validator:
\* a result computed from the data alone, also for data = None
EntropyValidator(data) == [entropy_of |-> data]

\* full_output of to_json
full_output(r) ==
    [key |-> r.key,
     line |-> r.line,
     line_num |-> r.line_num,
     path |-> r.path,
     info |-> r.info,
     pattern |-> r.pattern.pattern,
     separator |-> r.separator,
     separator_start |-> r.separator_start,
     separator_end |-> r.separator_end,
     value |-> r.value,
     value_start |-> r.value_start,
     value_end |-> r.value_end,
     variable |-> r.variable,
     variable_start |-> r.variable_start,
     variable_end |-> r.variable_end,
     value_leftquote |-> r.value_leftquote,
     value_rightquote |-> r.value_rightquote,
     entropy_validation |-> EntropyValidator(r.value)]

\* to_json that attaches the entropy validation past the allow-list
to_json_always_entropy(r) ==
    LET full == full_output(r)
    IN [k \in {f \in DOMAIN full : f \in r.config.line_data_output
                                   \/ f = "entropy_validation"} |->
           full[k]]

\* to_json, for a record whose pattern is a compiled pattern
to_json(r) ==
    LET full == full_output(r)
    IN [k \in {f \in DOMAIN full : f \in r.config.line_data_output} |->
           full[k]]

-----------------------------------------------------------------------------
(* Inputs: lines and rule matches                                          *)

MaxValLen == 4
MaxVarLen == 2

\* all strings over chars of length lo..hi
Strings(chars, lo, hi) ==
    UNION {[1..n -> chars] : n \in lo..hi}

GroupKinds == {"span", "unmatched", "nogroup"}
AllSpan == [g \in GroupNames |-> "span"]

\* A match of a keyword-style rule on the line
\*   pre variable separator value_leftquote value value_rightquote post
\* whose slots lie side by side, the keyword being the variable text; shape
\* says which slots took part, which did not, and which the rule lacks.
Line(p) == p.pre \o p.var \o p.sep \o p.lq \o p.val \o p.rq \o p.post

RuleMatch(p, shape) ==
    LET v0 == Len(p.pre)
        s0 == v0 + Len(p.var)
        l0 == s0 + Len(p.sep)
        a0 == l0 + Len(p.lq)
        r0 == a0 + Len(p.val)
        r1 == r0 + Len(p.rq)
        at == [keyword |-> Span(v0, s0),
               variable |-> Span(v0, s0),
               separator |-> Span(s0, l0),
               value_leftquote |-> Span(l0, a0),
               value |-> Span(a0, r0),
               value_rightquote |-> Span(r0, r1)]
    IN Match(Line(p),
             [g \in GroupNames |->
                 CASE shape[g] = "span" -> at[g]
                   [] shape[g] = "unmatched" -> Unmatched
                   [] OTHER -> NoGroup])

Parts(pres, variables, seps, quotes, values, posts) ==
    {[pre |-> pre, var |-> var, sep |-> sep, lq |-> q[1], val |-> val,
      rq |-> q[2], post |-> post] :
        pre \in pres, var \in variables, sep \in seps, q \in quotes,
        val \in values, post \in posts}

Str_ftp == <<"f", "t", "p", ":", "/", "/">>
Eq == <<"=">>

NoQuotes == <<<<>>, <<>>>>
SameQuotes == <<<<DQUOTE>>, <<DQUOTE>>>>

VarChars == {"a", "-", "&"}
ValChars == {"n", "&", " ", "-", BACKSLASH, "#"}

\* every short value after a plain and a dashed variable, bare, after a
\* query mark and inside a URL, unquoted and well quoted
ValueSweepParts ==
    Parts({<<>>, <<"?">>, Str_ftp},
          {<<"a">>, <<"-", "a">>},
          {Eq},
          {NoQuotes, SameQuotes},
          Strings(ValChars, 1, MaxValLen),
          {<<>>})

\* every short variable before a few values
VariableSweepParts ==
    Parts({<<>>, <<"?">>, Str_ftp},
          Strings(VarChars, 1, MaxVarLen),
          {Eq},
          {NoQuotes, SameQuotes},
          {<<"n">>, <<"n", "&", "n">>, <<"n", " ", "-", "n">>,
           <<BACKSLASH, "n">>, <<"n", "#">>, <<" ", "-">>},
          {<<>>})

SweepParts == ValueSweepParts \cup VariableSweepParts

\* the pattern of a rule, and the absence of one
Rule == [is_pattern |-> TRUE, pattern |-> "rule"]
NoRule == [is_pattern |-> FALSE, pattern |-> "None"]

AllFields ==
    {"key", "line", "line_num", "path", "info", "pattern", "separator",
     "separator_start", "separator_end", "value", "value_start",
     "value_end", "variable", "variable_start", "variable_end",
     "value_leftquote", "value_rightquote", "entropy_validation"}

Config(line_data_output) == [line_data_output |-> line_data_output]

\* the constructor called with a line the rule is searched in
Searched(config, line, pattern, found) ==
    [self |-> NewLineData(config, line, 1, "path", "info", pattern),
     arg |-> [match_obj |-> NoMatch, search |-> found]]

\* the constructor called with a match of the rule on the line
Supplied(config, line, pattern, match_obj) ==
    [self |-> NewLineData(config, line, 1, "path", "info", pattern),
     arg |-> [match_obj |-> match_obj, search |-> NoMatch]]

\* text literals of the scenarios
Str_token == <<"t", "o", "k", "e", "n">>
Str_api_key == <<"a", "p", "i", "_", "k", "e", "y">>
Str_ABCDEF == <<"A", "B", "C", "D", "E", "F">>
Str_foo_bar == <<"f", "o", "o", "=", "b", "a", "r">>
Str_abcdef == <<"a", "b", "c", "d", "e", "f">>
Str_other_xyz == <<"-", "-", "o", "t", "h", "e", "r", " ", "x", "y", "z">>
Str_url ==
    <<"h", "t", "t", "p", "s", ":", "/", "/", "e", "x", ".", "c", "o", "/",
      "a", "?", "x", "=", "1", "&", "y", "=", "2">>

\* the scenarios of the documentation and the cases the sweep is too short
\* for: the escaped query separators, the key=value heuristic, a variable
\* that ends in a URL scheme, the shell redirections, long escapes
ScenarioParts ==
    \* token = "https://ex.co/a?x=1&y=2"
    Parts({<<>>}, {Str_token}, {<<" ", "=", " ">>},
          {SameQuotes, NoQuotes, <<<<DQUOTE>>, <<SQUOTE>>>>,
           <<<<BACKSLASH, DQUOTE>>, <<BACKSLASH, DQUOTE>>>>,
           <<<<"x">>, <<"x">>>>, <<<<"[", "(">>, <<")", "]">>>>},
          {Str_url}, {<<>>})
    \cup
    \* ?api_key=ABCDEF&foo=bar and -token=abcdef --other xyz
    Parts({<<>>, <<"?">>, <<"&">>, <<"x">>, <<DQUOTE, "?">>, Str_ftp,
           Str_ftp \o <<" ">>,
           <<"p", ":", "/", "/">>, <<"f", "t", "#", ":", "/", "/">>,
           Str_ftp \o <<"a", ":", "/", "/">>},
          {Str_api_key, <<"-">> \o Str_token, <<"a", "&", "-", "b">>,
           <<"-", SQUOTE, "a", "-", " ">>, <<"a", "?", "b", ";", "c">>,
           <<"a", ":", "/", "/">>},
          {Eq},
          {NoQuotes},
          {Str_ABCDEF \o <<"&">> \o Str_foo_bar,
           Str_abcdef \o <<" ">> \o Str_other_xyz,
           Str_ABCDEF \o <<";">> \o Str_foo_bar,
           <<"a", "b", "%", "2", "6", "c">>,
           <<"a", "b", "%", "3", "F", "c">>,
           <<"a", BACKSLASH, "u", "0", "0", "2", "6", "c">>,
           <<"a", BACKSLASH, "U", "0", "0", "0", "0", "3", "f", "c">>,
           <<"a", BACKSLASH, "u", "2", "6">>,
           <<"a", "b", " ", "\t", "x", "1", ">", "f">>,
           <<"a", "b", " ", "|", "c">>,
           <<"a", "b", " ", "x", " ", ">">>,
           <<"a", BACKSLASH, "n", "c", " ", "-", "x">>,
           <<"a", BACKSLASH, BACKSLASH, "r", "c">>,
           <<"a">> \o [i \in 1..9 |-> BACKSLASH] \o <<"n">>},
          {<<>>, <<DQUOTE>>})

\* two lines under every rule shape: each slot matched, not taking part in
\* the match, or missing from the rule
ShapeParts ==
    Parts({<<"?">>}, {<<"a", "&", "-", "b">>}, {Eq}, {SameQuotes, NoQuotes},
          {<<"n", "&", "n">>}, {<<>>})

\* lines for the readers: the comment markers and their near misses
ReadLines ==
    {pre \o start \o <<"t", "=", "v">> :
        pre \in {<<>>, <<" ", "\t">>},
        start \in {comment_starts[k] : k \in 1..Len(comment_starts)}
                  \cup {<<>>, <<"<", "!", "-", "-">>, <<DQUOTE, " ">>,
                        <<SQUOTE, " ">>, <<"*">>, <<"/">>, <<"-">>,
                        <<".", ".">>, <<"(">>, <<"<", "!">>, <<"a", "#">>,
                        <<DQUOTE, "#", DQUOTE>>}}
    \cup {<<>>, <<" ">>, <<"#">>, <<"%">>, <<" ", "/", "/", " ">>,
          <<DQUOTE, "a", "=", "b", DQUOTE>>}

Configs ==
    {Config(AllFields),
     Config({}),
     Config({"line", "value", "entropy_validation"}),
     Config({"line_num", "path", "value", "variable", "unknown"})}

ReadParts ==
    Parts({<<>>, <<DQUOTE, "?">>}, {<<"-", "a">>}, {Eq},
          {NoQuotes, SameQuotes},
          {<<"n", "&", "n">>, <<"n", " ", "-", "n">>}, {<<>>, <<DQUOTE>>})

-----------------------------------------------------------------------------
(* The state machine                                                       *)

NoRet == [op |-> "none", val |-> FALSE, other |-> <<>>, json |-> <<>>]
NoCache == [is_well_quoted_value |-> Unset, is_quoted |-> Unset]

\* __init__ up to its call of initialize
InitWith(input) ==
    /\ self = input.self
    /\ arg = input.arg
    /\ pc = "initialize"
    /\ cache = NoCache
    /\ ret = NoRet
    /\ raised = "none"

Init ==
    \/ \E p \in SweepParts :
          InitWith(Searched(Config(AllFields), Line(p), Rule,
                            RuleMatch(p, AllSpan)))
    \/ \E p \in ScenarioParts :
          InitWith(Supplied(Config(AllFields), Line(p), Rule,
                            RuleMatch(p, AllSpan)))
    \/ \E p \in ShapeParts, shape \in [GroupNames -> GroupKinds] :
          InitWith(Searched(Config(AllFields), Line(p), Rule,
                            RuleMatch(p, shape)))
    \/ \E p \in ShapeParts :
          InitWith(Searched(Config(AllFields), Line(p), Rule, NoMatch))

\* pattern.search(line, endpos=MAX_LINE_LENGTH): the match the rule has on
\* the scanned part of the line, or None
pattern_search(r, found) ==
    IF found.is_match
       /\ \A g \in GroupNames :
             found.groups[g].kind = "span" =>
                 found.groups[g].e <= Min(Len(r.line), MAX_LINE_LENGTH)
    THEN found
    ELSE NoMatch

\* initialize, lines 99-100: the match the record is built from
match_obj_of(r, a) ==
    IF ~a.match_obj.is_match /\ r.pattern.is_pattern
    THEN pattern_search(r, a.search)
    ELSE a.match_obj

\* initialize, lines 99-123
Initialize ==
    /\ pc = "initialize"
    /\ LET match_obj == match_obj_of(self, arg)
       IN IF ~match_obj.is_match
          THEN /\ pc' = "done"
               /\ self' = self
          ELSE /\ pc' = "sanitize_value"
               /\ self' = extract(self, match_obj)
    /\ UNCHANGED <<arg, cache, ret, raised>>

\* initialize, line 124: self.sanitize_value()
SanitizeValue ==
    /\ pc = "sanitize_value"
    /\ LET computed == is_well_quoted_value(self)
           reads == sanitize_value_reads_quotes(self)
       IN /\ self' = sanitize_value(
                         self, cached(cache, "is_well_quoted_value", computed))
          /\ cache' = IF reads
                      THEN store(cache, "is_well_quoted_value", computed)
                      ELSE cache
    /\ pc' = "sanitize_variable"
    /\ UNCHANGED <<arg, ret, raised>>

\* initialize, line 125: self.sanitize_variable()
SanitizeVariable ==
    /\ pc = "sanitize_variable"
    /\ self' = sanitize_variable(self)
    /\ pc' = "done"
    /\ UNCHANGED <<arg, cache, ret, raised>>

\* a read of the cached property is_well_quoted_value
ReadIsWellQuotedValue ==
    /\ pc = "done"
    /\ cache' = store(cache, "is_well_quoted_value",
                      is_well_quoted_value(self))
    /\ cache' # cache
    /\ UNCHANGED <<self, arg, pc, ret, raised>>

\* a read of the cached property is_quoted
ReadIsQuoted ==
    /\ pc = "done"
    /\ cache' = store(cache, "is_quoted", is_quoted(self))
    /\ cache' # cache
    /\ UNCHANGED <<self, arg, pc, ret, raised>>

\* a call of is_comment
IsComment ==
    /\ pc = "done"
    /\ ret' = [NoRet EXCEPT !.op = "is_comment", !.val = is_comment(self)]
    /\ UNCHANGED <<self, arg, pc, cache, raised>>

\* another record of the same shape: self with one field changed
IntFields ==
    {"line_num", "value_start", "value_end", "separator_start",
     "separator_end", "variable_start", "variable_end"}
TextFields ==
    {"key", "separator", "value", "variable", "value_leftquote",
     "value_rightquote"}
OtherFields == {"path", "info", "line", "pattern", "url_part", "config"}

Changed(r, f) ==
    CASE f \in IntFields -> [r EXCEPT ![f] = r[f] + 1]
      [] f \in TextFields ->
            [r EXCEPT ![f] = IF r[f].some THEN Some(r[f].s \o <<"x">>)
                                          ELSE Some(<<>>)]
      [] f = "path" -> [r EXCEPT !.path = "path2"]
      [] f = "info" -> [r EXCEPT !.info = "info2"]
      [] f = "line" -> [r EXCEPT !.line = r.line \o <<"x">>]
      [] f = "pattern" ->
            [r EXCEPT !.pattern = [is_pattern |-> TRUE, pattern |-> "rule2"]]
      [] f = "url_part" -> [r EXCEPT !.url_part = ~r.url_part]
      [] f = "config" -> [r EXCEPT !.config = Config({"line"})]

ComparedFields ==
    {"path", "info", "line_num", "value_start", "variable", "value"}
FreeFields == (IntFields \cup TextFields \cup OtherFields) \ ComparedFields

RECURSIVE ChangedAll(_, _)
ChangedAll(r, fs) ==
    IF fs = {} THEN r
    ELSE LET f == CHOOSE x \in fs : TRUE
         IN ChangedAll(Changed(r, f), fs \ {f})

Others(r) ==
    {r, ChangedAll(r, FreeFields)}
    \cup {Changed(r, f) : f \in IntFields \cup TextFields \cup OtherFields}
    \cup {Changed(ChangedAll(r, FreeFields), f) : f \in ComparedFields}

\* a call of self.compare(other)
Compare ==
    /\ pc = "done"
    /\ \E other \in Others(self) :
          ret' = [NoRet EXCEPT !.op = "compare",
                               !.val = compare(self, other),
                               !.other = other]
    /\ UNCHANGED <<self, arg, pc, cache, raised>>

\* a call of to_json; self.pattern.pattern raises AttributeError when the
\* pattern is not a compiled pattern
ToJson ==
    /\ pc = "done"
    /\ IF self.pattern.is_pattern
       THEN /\ ret' = [NoRet EXCEPT !.op = "to_json", !.json = to_json(self)]
            /\ raised' = raised
       ELSE /\ raised' = "AttributeError"
            /\ ret' = ret
    /\ UNCHANGED <<self, arg, pc, cache>>

Next ==
    \/ Initialize
    \/ SanitizeValue
    \/ SanitizeVariable
    \/ ReadIsWellQuotedValue
    \/ ReadIsQuoted

Spec == Init /\ [][Next]_vars

\* construction followed by every reader
InitReads ==
    \/ \E config \in Configs, line \in ReadLines, pattern \in {Rule, NoRule} :
          InitWith(Searched(config, line, pattern, NoMatch))
    \/ \E config \in Configs, p \in ReadParts,
          shape \in {AllSpan, [AllSpan EXCEPT !["value"] = "unmatched"],
                     [AllSpan EXCEPT !["value"] = "nogroup"]} :
          InitWith(Searched(config, Line(p), Rule, RuleMatch(p, shape)))
    \/ \E config \in Configs, p \in ReadParts :
          InitWith(Supplied(config, Line(p), NoRule, RuleMatch(p, AllSpan)))

NextReads ==
    \/ Initialize
    \/ SanitizeValue
    \/ SanitizeVariable
    \/ ReadIsWellQuotedValue
    \/ ReadIsQuoted
    \/ IsComment
    \/ Compare
    \/ ToJson

SpecReads == InitReads /\ [][NextReads]_vars

-----------------------------------------------------------------------------
(* Properties                                                              *)

\* the match the record is built from, and the fields as extracted from it
TheMatch == match_obj_of(self, arg)
Matched == TheMatch.is_match
Captured == extract(self, TheMatch)
\* both sanitizers have run
Sanitized == pc = "done" /\ Matched
\* sanitize_value has run
ValueSanitized == pc \in {"sanitize_variable", "done"}
WellQuoted == is_well_quoted_value(Captured)

IsPrefix(s, t) == Len(s) <= Len(t) /\ SubSeq(t, 1, Len(s)) = s
ValidSpan(start, end) == 0 <= start /\ start <= end

SpanTextOk(text, start, end) ==
    (text.some /\ ValidSpan(start, end)) =>
        Slice(self.line, start, end) = text.s

\* C1 (as claimed): once a record is constructed from a match on its own
\* line, each of variable, value and separator whose text is present and
\* whose span is valid equals the substring of the line at its span.
C1_SpanTextConsistency ==
    (Sanitized /\ TheMatch.string = self.line) =>
        /\ SpanTextOk(self.variable, self.variable_start, self.variable_end)
        /\ SpanTextOk(self.value, self.value_start, self.value_end)
        /\ SpanTextOk(self.separator, self.separator_start,
                      self.separator_end)

Sentinels == {<<INITIAL_WRONG_POSITION, INITIAL_WRONG_POSITION>>,
              <<EXCEPTION_POSITION, EXCEPTION_POSITION>>}

SpansOf(r) ==
    {<<r.value_start, r.value_end>>,
     <<r.variable_start, r.variable_end>>,
     <<r.separator_start, r.separator_end>>}

\* C2 (as claimed): in every state each of the three spans is (-3,-3),
\* (-2,-2) or a valid range 0 <= start <= end.
C2_SpanInvariant ==
    \A sp \in SpansOf(self) : sp \in Sentinels \/ ValidSpan(sp[1], sp[2])

\* C2 (amended): in every state each of the three spans is (-3,-3), (-2,-2),
\* (-1,-1) for a slot of the rule that took no part in the match, or a valid
\* range; and a span that was valid when extracted is valid in every later
\* state.
C2_SpanInvariantAmended ==
    /\ \A sp \in SpansOf(self) :
          sp \in Sentinels \cup {<<-1, -1>>} \/ ValidSpan(sp[1], sp[2])
    /\ (Matched /\ pc # "initialize") =>
          /\ ValidSpan(Captured.value_start, Captured.value_end) =>
                ValidSpan(self.value_start, self.value_end)
          /\ ValidSpan(Captured.variable_start, Captured.variable_end) =>
                ValidSpan(self.variable_start, self.variable_end)
          /\ ValidSpan(Captured.separator_start, Captured.separator_end) =>
                ValidSpan(self.separator_start, self.separator_end)

\* the separator took no part in the match, and both sanitizers moved
\* their span
C2_Witness ==
    /\ Sanitized
    /\ <<-1, -1>> \in SpansOf(self)
    /\ ValidSpan(self.value_start, self.value_end)
    /\ ValidSpan(self.variable_start, self.variable_end)
    /\ self.variable_start > Captured.variable_start
    /\ self.value_end < Captured.value_end

\* C3: when the quotes of the value resolve to the same quote character,
\* the value and its span stay what the match captured, from sanitize_value
\* on.
C3_WellQuotedBypass ==
    (Matched /\ ValueSanitized /\ WellQuoted) =>
        /\ self.value = Captured.value
        /\ self.value_start = Captured.value_start
        /\ self.value_end = Captured.value_end

\* a well quoted value with a query separator in it, after a query mark,
\* under a dashed variable: both passes would have cut it
C3_Witness ==
    /\ Sanitized
    /\ WellQuoted
    /\ Truthy(Captured.variable)
    /\ check_url_part(Captured)
    /\ Contains(self.value.s, <<"&">>)
    /\ HasSplit(self.value.s, bash_param_split_at)
    /\ startswith(Captured.variable.s, <<"-">>)

\* the character before the captured variable is ? or &
AfterQueryMark ==
    /\ 0 < Captured.variable_start
    /\ CharAt(self.line, Captured.variable_start - 1) \in {"?", "&"}

ScenarioB_line ==
    <<"?">> \o Str_api_key \o Eq \o Str_ABCDEF \o <<"&">> \o Str_foo_bar

\* C7: with variable and value captured non-empty, not well quoted, and ?
\* or & right before the variable: url_part is true, the value is a prefix
\* of the captured value with none of & ; # in it, value_start is unchanged
\* and value_end is value_start plus the length of the value; the line
\* ?api_key=ABCDEF&foo=bar yields ABCDEF.
C7_UrlQueryCleanup ==
    (Matched /\ ValueSanitized /\ Truthy(Captured.variable)
     /\ Truthy(Captured.value) /\ ~WellQuoted /\ AfterQueryMark) =>
        /\ self.url_part
        /\ IsPrefix(self.value.s, Captured.value.s)
        /\ \A c \in {"&", ";", "#"} :
              /\ ~Contains(self.value.s, <<c>>)
              /\ Contains(Captured.value.s, <<c>>) =>
                    Len(self.value.s) <= Find(Captured.value.s, <<c>>, 0)
        /\ self.value_start = Captured.value_start
        /\ self.value_end = self.value_start + Len(self.value.s)
        /\ self.line = ScenarioB_line => self.value.s = Str_ABCDEF

\* no URL scheme before the value, a value that is cut at a separator
C7_Witness ==
    /\ Sanitized
    /\ ~WellQuoted
    /\ AfterQueryMark
    /\ ~Contains(self.line, URL_SCHEME_SEP)
    /\ self.url_part
    /\ self.value.s # <<>>
    /\ Len(self.value.s) < Len(Captured.value.s)
    /\ self.value_end = self.value_start + Len(self.value.s)

\* the precondition of C8
DashedShellValue ==
    /\ Matched
    /\ ~WellQuoted
    /\ ~self.url_part
    /\ Truthy(Captured.variable)
    /\ Truthy(Captured.value)
    /\ startswith(Captured.variable.s, <<"-">>)
    /\ HasSplit(Captured.value.s, bash_param_split_at)

\* the captured value up to its first whitespace run that a shell
\* metacharacter follows
ShellPrefix == FirstPiece(Captured.value.s, bash_param_split_at)

HasEscapedLineEnding(s) ==
    Contains(s, <<BACKSLASH, "n">>) \/ Contains(s, <<BACKSLASH, "r">>)

\* C8 (as claimed): not well quoted, not URL part, the captured variable
\* starts with -, the captured value has whitespace before a shell
\* metacharacter: the final value is the captured value up to that
\* whitespace, and the final variable has no leading -.
C8_ShellCleanup ==
    (Sanitized /\ DashedShellValue) =>
        /\ self.value.s = ShellPrefix
        /\ ~startswith(self.variable.s, <<"-">>)

\* C8 (amended): the final value is that prefix when the prefix has a space
\* in it or has no escaped line ending (backslash then n or r); otherwise
\* it is the prefix up to its first escaped line ending (1 to 8 backslashes
\* then n or r).  The final variable has no leading -.
C8_ShellCleanupAmended ==
    (Sanitized /\ DashedShellValue) =>
        /\ (Contains(ShellPrefix, <<" ">>) \/ ~HasEscapedLineEnding(ShellPrefix))
              => self.value.s = ShellPrefix
        /\ (~Contains(ShellPrefix, <<" ">>) /\ HasEscapedLineEnding(ShellPrefix))
              => /\ IsPrefix(self.value.s, ShellPrefix)
                 /\ line_endings_at(ShellPrefix, Len(self.value.s))
                 /\ \A i \in 0..(Len(self.value.s) - 1) :
                       ~line_endings_at(ShellPrefix, i)
        /\ ~startswith(self.variable.s, <<"-">>)

\* the shell pass cut the value and the variable lost its dashes
C8_Witness ==
    /\ Sanitized
    /\ DashedShellValue
    /\ self.value.s = ShellPrefix
    /\ self.value.s # <<>>
    /\ Len(self.value.s) < Len(Captured.value.s)
    /\ self.variable.s # <<>>
    /\ Len(self.variable.s) < Len(Captured.variable.s)

\* C10 (as claimed): neither cached boolean is computed while construction
\* is in progress.
C10_CachedAfterConstruction == pc # "done" => cache = NoCache

\* C10 (amended): is_quoted is computed only after construction.
\* is_well_quoted_value is computed inside sanitize_value, after extraction
\* and before either sanitizer changes a field, exactly when the captured
\* variable and value are both non-empty, and on first read after
\* construction otherwise.  Each cached value equals the value computed from
\* the current fields of the record.
C10_CachedAmended ==
    /\ pc # "done" => cache.is_quoted = Unset
    /\ pc \in {"initialize", "sanitize_value"} => cache = NoCache
    /\ pc = "sanitize_variable" =>
          (cache.is_well_quoted_value # Unset
              <=> (Truthy(Captured.variable) /\ Truthy(Captured.value)))
    /\ cache.is_well_quoted_value # Unset =>
          cache.is_well_quoted_value[1] = is_well_quoted_value(self)
    /\ cache.is_quoted # Unset => cache.is_quoted[1] = is_quoted(self)

\* both booleans cached true after a construction whose sanitizers changed
\* the value and the variable
C10_Witness ==
    /\ Sanitized
    /\ cache.is_quoted = <<TRUE>>
    /\ cache.is_well_quoted_value # Unset
    /\ self.value # Captured.value
    /\ self.variable # Captured.variable

SixAgree(a, b) == \A f \in ComparedFields : a[f] = b[f]

\* C4: a.compare(b) is true exactly when a and b agree on path, info, line
\* number, value_start, variable and value, whatever their other fields;
\* compare is reflexive, symmetric and transitive.
C4_DedupEquivalence ==
    ret.op = "compare" =>
        /\ ret.val <=> SixAgree(self, ret.other)
        /\ ret.val <=> compare(ret.other, self)
        /\ compare(self, self)
        /\ compare(ret.other, ret.other)
        /\ \A c \in Others(self) :
              (ret.val /\ compare(ret.other, c)) => compare(self, c)

\* equivalent records that differ in the line, the rule, value_end, the
\* separator and the quotes
C4_Witness ==
    /\ ret.op = "compare"
    /\ ret.val
    /\ Sanitized
    /\ ret.other.line # self.line
    /\ ret.other.pattern # self.pattern
    /\ ret.other.value_end # self.value_end
    /\ ret.other.separator # self.separator
    /\ ret.other.value_leftquote # self.value_leftquote

\* C5 (as claimed): to_json attaches the entropy validation exactly when
\* the value is present, whatever the allow-list says; every other key of
\* the mapping is in the allow-list.
C5_EntropyAttachment ==
    ret.op = "to_json" =>
        /\ "entropy_validation" \in DOMAIN ret.json <=> self.value.some
        /\ \A k \in DOMAIN ret.json \ {"entropy_validation"} :
              k \in self.config.line_data_output

\* C5 (amended): the keys of the mapping are the fields of the record that
\* are in the allow-list; the entropy validation of the value is attached
\* exactly when entropy_validation is in the allow-list, whether the value
\* is present or absent.
C5_EntropyAttachmentAmended ==
    ret.op = "to_json" =>
        /\ DOMAIN ret.json = AllFields \cap self.config.line_data_output
        /\ "entropy_validation" \in DOMAIN ret.json
              <=> "entropy_validation" \in self.config.line_data_output
        /\ "entropy_validation" \in DOMAIN ret.json =>
              ret.json["entropy_validation"] = EntropyValidator(self.value)

\* a present value serialized without its entropy validation
C5_Witness ==
    /\ ret.op = "to_json"
    /\ Sanitized
    /\ self.value.some
    /\ "value" \in DOMAIN ret.json
    /\ "entropy_validation" \notin DOMAIN ret.json

\* no match was supplied and the rule does not match the line
NoMatchInput ==
    /\ ~arg.match_obj.is_match
    /\ self.pattern.is_pattern
    /\ ~pattern_search(self, arg.search).is_match

\* C6: without a match construction ends with every span UNSET, every text
\* absent and url_part false, having run neither sanitizer; from there no
\* reader raises, both cached booleans are false, and no field changes.
C6_NoMatchTerminal ==
    NoMatchInput =>
        /\ pc \in {"initialize", "done"}
        /\ raised = "none"
        /\ self = NewLineData(self.config, self.line, self.line_num,
                              self.path, self.info, self.pattern)
        /\ cache.is_well_quoted_value \in {Unset, <<FALSE>>}
        /\ cache.is_quoted \in {Unset, <<FALSE>>}

\* a record without a match, on a line with a quote at either end, after
\* reads of both cached booleans and a to_json
C6_Witness ==
    /\ NoMatchInput
    /\ pc = "done"
    /\ cache.is_well_quoted_value = <<FALSE>>
    /\ cache.is_quoted = <<FALSE>>
    /\ ret.op = "to_json"
    /\ "entropy_validation" \in DOMAIN ret.json
    /\ Len(self.line) > 3
    /\ self.line[1] = DQUOTE
    /\ self.line[Len(self.line)] = DQUOTE

\* the markers C9 lists, its last form being the marker of an asterisk and
\* a space
ClaimedCommentStarts ==
    {<<"/", "/">>, <<"#">>, <<"/", "*">>, <<"<", "!", "-", "-">>, <<"%">>,
     <<"%", "{">>, <<".", ".", ".">>, <<"(", "*">>, <<"-", "-">>,
     <<"-", "-", "[", "[">>, <<"#", "=">>, <<"*", " ">>}

\* C9 (as claimed): is_comment is true exactly when the line, stripped of
\* surrounding whitespace, starts with one of the listed markers, the HTML
\* marker <!-- among them.
C9_CommentClassification ==
    ret.op = "is_comment" =>
        (ret.val <=> \E m \in ClaimedCommentStarts :
                        startswith(strip(self.line, Whitespace), m))

====
